---- MODULE Spec2Model ----
(***************************************************************************)
(* Model of esphome/yaml_util.py: the tag-extended YAML construction pass  *)
(* (ESPHomeLoader), the directive handlers, the loader entry points and    *)
(* the secret-aware dumper.                                                *)
(*                                                                         *)
(* A YAML node is a record  [tag, mark, sv]     (ScalarNode),              *)
(*                          [tag, mark, items]  (SequenceNode),            *)
(*                          [tag, mark, pairs]  (MappingNode);             *)
(* a constructed Python value is a record with a type field t.             *)
(* The loader's fields and the module globals are threaded through the     *)
(* construction as one record st; a handler returns [ok, val, st], with    *)
(* ok = FALSE and val the raised error when the handler raises.            *)
(***************************************************************************)
EXTENDS Integers, Sequences, FiniteSets, TLC

VARIABLES
    pc,             \* position of the driver: "start", "done", "idle"
    node,           \* the input handed to the operation (a node, or merge operands)
    vars0,          \* the environment the loader was created with
    ret,            \* [ok, val] of the last operation
    loader,         \* the loader's fields after the operation: [vars, dse]
    xlog,           \* every call of expand_str made by the operation, in order
    _SECRET_VALUES,  \* str(value) -> secret name
    _SECRET_CACHE,   \* path -> parsed document
    reads,          \* number of read_config_file calls per path in the current load
    lookups,        \* !secret lookups since the registry was last cleared, in order
    dumpIn,         \* the value last handed to dump
    dumpOut,        \* the scalar node the dumper represented it as
    cleared         \* the last load_yaml began with an empty secret registry

vars == <<pc, node, vars0, ret, loader, xlog, _SECRET_VALUES, _SECRET_CACHE,
          reads, lookups, dumpIn, dumpOut, cleared>>

-----------------------------------------------------------------------------
(* Python values *)

Null == [t |-> "null"]
IntV(i) == [t |-> "int", i |-> i]
FloatV(f) == [t |-> "float", f |-> f]          \* the float f.0
BoolV(b) == [t |-> "bool", b |-> b]
StrV(s) == [t |-> "str", s |-> s]
ListV(xs) == [t |-> "list", items |-> xs]
ForList(xs) == [t |-> "forlist", items |-> xs]
DictV(ps) == [t |-> "dict", pairs |-> ps]      \* ps: sequence of [k, v], keys distinct
Lambda(s) == [t |-> "lambda", value |-> s]
ID(s) == [t |-> "id", id |-> s]

Pair(k, v) == [k |-> k, v |-> v]

IsList(v) == v.t \in {"list", "forlist"}      \* isinstance(v, list)
IsDict(v) == v.t = "dict"                     \* isinstance(v, dict)
IsStr(v) == v.t = "str"                       \* isinstance(v, str)

Range(f) == {f[i] : i \in DOMAIN f}

EmptyEnv == [n \in {} |-> Null]

\* d[k] = v on a dict held as a function (a loader's vars)
Extend(env, k, v) == [n \in (DOMAIN env) \cup {k} |-> IF n = k THEN v ELSE env[n]]

\* {**a, **b}
Union(a, b) == [n \in (DOMAIN a) \cup (DOMAIN b) |-> IF n \in DOMAIN b THEN b[n] ELSE a[n]]

Keys(ps) == [i \in 1..Len(ps) |-> ps[i].k]

HasKey(ps, k) == \E i \in 1..Len(ps) : ps[i].k = k

Get(ps, k) == ps[CHOOSE i \in 1..Len(ps) : ps[i].k = k].v

\* d[k] = v on an ordered dict held as a sequence of pairs: an existing key
\* keeps its position and takes the new value, a new key is appended
SetItem(ps, k, v) ==
    IF HasKey(ps, k)
    THEN [i \in 1..Len(ps) |-> IF ps[i].k = k THEN Pair(k, v) ELSE ps[i]]
    ELSE Append(ps, Pair(k, v))

RECURSIVE OrderedDict(_)
\* OrderedDict(pairs) of a list of pairs
OrderedDict(ps) ==
    IF Len(ps) = 0 THEN <<>>
    ELSE SetItem(OrderedDict(SubSeq(ps, 1, Len(ps) - 1)), ps[Len(ps)].k, ps[Len(ps)].v)

\* the dict as an environment
AsEnv(ps) == [n \in Range(Keys(ps)) |-> Get(ps, n)]

Digits == <<"0", "1", "2", "3", "4", "5", "6", "7", "8", "9">>

\* str(i) of a small int
IntStr(i) == Digits[i + 1]

\* int(s)
ParseInt(s) == (CHOOSE d \in 1..Len(Digits) : Digits[d] = s) - 1

RECURSIVE PyRepr(_)
RECURSIVE ReprItems(_, _)
ReprItems(xs, i) ==
    IF i > Len(xs) THEN ""
    ELSE (IF i > 1 THEN ", " ELSE "") \o PyRepr(xs[i]) \o ReprItems(xs, i + 1)

RECURSIVE ReprPairs(_, _)
ReprPairs(ps, i) ==
    IF i > Len(ps) THEN ""
    ELSE (IF i > 1 THEN ", " ELSE "") \o "'" \o ps[i].k \o "': " \o PyRepr(ps[i].v)
         \o ReprPairs(ps, i + 1)

\* repr(v)
PyRepr(v) ==
    CASE v.t = "null" -> "None"
      [] v.t = "int" -> IntStr(v.i)
      [] v.t = "float" -> IntStr(v.f) \o ".0"
      [] v.t = "bool" -> IF v.b THEN "True" ELSE "False"
      [] v.t = "str" -> "'" \o v.s \o "'"
      [] v.t \in {"list", "forlist"} -> "[" \o ReprItems(v.items, 1) \o "]"
      [] v.t = "dict" -> "{" \o ReprPairs(v.pairs, 1) \o "}"
      [] v.t = "lambda" -> "<Lambda>"
      [] v.t = "id" -> "<ID>"

\* str(v)
PyStr(v) == IF v.t = "str" THEN v.s ELSE PyRepr(v)

\* bool(v)
Truthy(v) ==
    CASE v.t = "null" -> FALSE
      [] v.t = "int" -> v.i # 0
      [] v.t = "float" -> v.f # 0
      [] v.t = "bool" -> v.b
      [] v.t = "str" -> v.s # ""
      [] v.t \in {"list", "forlist"} -> Len(v.items) > 0
      [] v.t = "dict" -> Len(v.pairs) > 0
      [] OTHER -> TRUE

-----------------------------------------------------------------------------
(* YAML nodes *)

ScalarNode(tag, value, mark) == [tag |-> tag, mark |-> mark, sv |-> value]
SequenceNode(tag, items, mark) == [tag |-> tag, mark |-> mark, items |-> items]
MappingNode(tag, pairs, mark) == [tag |-> tag, mark |-> mark, pairs |-> pairs]

IsScalarNode(n) == "sv" \in DOMAIN n
IsSequenceNode(n) == "items" \in DOMAIN n
IsMappingNode(n) == "pairs" \in DOMAIN n

NoNode == [tag |-> "<none>"]

DEFAULT_SCALAR_TAG == "str"
DEFAULT_SEQUENCE_TAG == "seq"
DEFAULT_MAPPING_TAG == "map"

CONF_ID == "id"
CONF_FILE == "file"
CONF_VARS == "vars"
CONF_SUBSTITUTIONS == "substitutions"
SECRET_YAML == "secrets.yaml"

-----------------------------------------------------------------------------
(* Results of a handler *)

Ok(v, st) == [ok |-> TRUE, val |-> v, st |-> st]
Raise(e, st) == [ok |-> FALSE, val |-> e, st |-> st]

\* yaml.MarkedYAMLError(context, context_mark)
MarkedYAMLError(context, context_mark) ==
    [t |-> "error", cls |-> "MarkedYAMLError", context |-> context,
     context_mark |-> context_mark, problem_mark |-> 0]

\* yaml.constructor.ConstructorError(context, context_mark, problem, problem_mark)
ConstructorError(context, context_mark, problem_mark) ==
    [t |-> "error", cls |-> "ConstructorError", context |-> context,
     context_mark |-> context_mark, problem_mark |-> problem_mark]

\* any other Python exception (KeyError, AssertionError, OSError, ...)
PyError(context) ==
    [t |-> "error", cls |-> "Exception", context |-> context,
     context_mark |-> 0, problem_mark |-> 0]

-----------------------------------------------------------------------------
(* The template engine (esphome.jinja.expand_str): a string that is one of  *)
(* the template expressions below renders the str() of the variable it     *)
(* names, or fails when the variable is undefined; any other string        *)
(* renders as itself.                                                      *)

Templates ==
    << Pair("{{ x }}", "x"), Pair("{{ item }}", "item"),
       Pair("{{ j }}", "j"), Pair("{{ u }}", "u") >>

expand_str(s, env) ==
    IF HasKey(Templates, s)
    THEN IF Get(Templates, s) \in DOMAIN env
         THEN [ok |-> TRUE, s |-> PyStr(env[Get(Templates, s)])]
         ELSE [ok |-> FALSE, s |-> "UndefinedError"]
    ELSE [ok |-> TRUE, s |-> s]

-----------------------------------------------------------------------------
(* ESPHomeLoader *)

RECURSIVE construct_object(_, _)

\* F of the value of e, e.g. of the result of a call: LET r == e IN F(r)
Let(e, F(_)) == F(e)

\* ESPHomeLoader.__init__ on top of the module globals carried by st
NewLoader(st, name, env, disable_str_expansion) ==
    [st EXCEPT !.name = name, !.vars = env, !.dse = disable_str_expansion]

\* back in the calling loader after a recursive load: its own fields are
\* untouched, the module globals are as the callee left them
Back(callee, caller) ==
    [callee EXCEPT !.name = caller.name, !.vars = caller.vars, !.dse = caller.dse]

construct_yaml_int(st, n) == Ok(IntV(ParseInt(n.sv)), st)

\* float(s) of a text d.0
ParseFloat(s) == (CHOOSE d \in 1..Len(Digits) : Digits[d] \o ".0" = s) - 1

construct_yaml_float(st, n) == Ok(FloatV(ParseFloat(n.sv)), st)

\* SafeLoader's constructors for the tags ESPHomeLoader does not override
construct_yaml_bool(st, n) == Ok(BoolV(n.sv = "true"), st)

construct_yaml_null(st, n) == Ok(Null, st)

construct_yaml_str(st, n) ==
    IF st.dse THEN Ok(StrV(n.sv), st)
    ELSE LET x == expand_str(n.sv, st.vars)
             logged == [st EXCEPT !.xlog = Append(@, [s |-> n.sv, vars |-> st.vars,
                                                       lit |-> st.lit])]
         IN  IF x.ok THEN Ok(StrV(x.s), logged)
             ELSE Raise(MarkedYAMLError("Variable is undefined", n.mark), logged)

RECURSIVE construct_children(_, _, _, _)
\* SafeLoader.construct_sequence: [self.construct_object(child) for child in node.value]
construct_children(st, nodes, i, acc) ==
    IF i > Len(nodes) THEN Ok(acc, st)
    ELSE Let(construct_object(st, nodes[i]),
             LAMBDA r : IF r.ok
                        THEN construct_children(r.st, nodes, i + 1, Append(acc, r.val))
                        ELSE r)

RECURSIVE flatten_for_one_level(_)
flatten_for_one_level(items) ==
    IF Len(items) = 0 THEN <<>>
    ELSE LET item == Head(items)
         IN  (IF item.t = "forlist" THEN item.items
              ELSE IF item.t # "null" THEN <<item>> ELSE <<>>)
             \o flatten_for_one_level(Tail(items))

RECURSIVE flatten_for_keep_null(_)
\* flatten_for that splices the ForList children and drops nothing
flatten_for_keep_null(items) ==
    IF Len(items) = 0 THEN <<>>
    ELSE LET item == Head(items)
         IN  (IF item.t = "forlist" THEN flatten_for_keep_null(item.items)
              ELSE <<item>>)
             \o flatten_for_keep_null(Tail(items))

RECURSIVE flatten_for(_)
flatten_for(items) ==
    IF Len(items) = 0 THEN <<>>
    ELSE LET item == Head(items)
         IN  (IF item.t = "forlist" THEN flatten_for(item.items)
              ELSE IF item.t # "null" THEN <<item>> ELSE <<>>)
             \o flatten_for(Tail(items))

construct_sequence(st, n) ==
    Let(construct_children(st, n.items, 1, <<>>),
        LAMBDA r : IF r.ok THEN Ok(ListV(flatten_for(r.val)), r.st) ELSE r)

construct_yaml_seq(st, n) == construct_sequence(st, n)

\* hash(key) raises TypeError
Unhashable(key) == key.t \in {"list", "forlist", "dict"}

RECURSIVE ItemsOf(_)
\* the items() of every mapping of a list, in order
ItemsOf(dicts) ==
    IF Len(dicts) = 0 THEN <<>> ELSE Head(dicts).pairs \o ItemsOf(Tail(dicts))

make_key_repr(key) == PyRepr(key)

\* key = make_data_base(str(key))
make_key(key) == PyStr(key)

RECURSIVE map_entries(_, _, _, _, _, _)
\* the loop over node.value of construct_yaml_map
map_entries(st, n, i, pairs, merge_pairs, seen_keys) ==
    IF i > Len(n.pairs)
    THEN Ok([pairs |-> pairs, merge_pairs |-> merge_pairs, seen_keys |-> seen_keys], st)
    ELSE
    LET value_node == n.pairs[i].v
        is_merge_key == n.pairs[i].k.tag = "merge"
        is_default_tag == n.pairs[i].k.tag = "value"
        key_node == IF is_default_tag THEN [n.pairs[i].k EXCEPT !.tag = "str"]
                    ELSE n.pairs[i].k
    IN
    IF ~is_merge_key
    THEN Let(construct_object([st EXCEPT !.dse = TRUE], key_node), LAMBDA rk :
         IF ~rk.ok THEN rk
         ELSE
         Let(construct_object([rk.st EXCEPT !.dse = st.dse], value_node), LAMBDA rv :
         Let(make_key(rk.val), LAMBDA key :
         IF ~rv.ok THEN rv
         ELSE IF Unhashable(rk.val)
         THEN Raise(ConstructorError("Invalid key", key_node.mark, 0), rv.st)
         ELSE IF HasKey(seen_keys, key)
         THEN Raise(ConstructorError("Duplicate key", key_node.mark,
                                     Get(seen_keys, key)), rv.st)
         ELSE map_entries(rv.st, n, i + 1, Append(pairs, Pair(key, rv.val)),
                          merge_pairs, SetItem(seen_keys, key, key_node.mark)))))
    ELSE Let(construct_object(st, value_node), LAMBDA rv :
         IF ~rv.ok THEN rv
         ELSE IF IsDict(rv.val)
         THEN map_entries(rv.st, n, i + 1, pairs, merge_pairs \o rv.val.pairs,
                          seen_keys)
         ELSE IF IsList(rv.val)
         THEN IF \E k \in 1..Len(rv.val.items) : ~IsDict(rv.val.items[k])
              THEN Raise(ConstructorError("Expected a mapping for merging",
                                          n.mark, value_node.mark), rv.st)
              ELSE map_entries(rv.st, n, i + 1, pairs,
                               merge_pairs \o ItemsOf(rv.val.items), seen_keys)
         ELSE Raise(ConstructorError(
                        "Expected a mapping or list of mappings for merging",
                        n.mark, value_node.mark), rv.st))

RECURSIVE merge_pass_keep_all(_, _, _, _)
merge_pass_keep_all(pairs, seen_keys, merge_pairs, j) ==
    IF j > Len(merge_pairs) THEN pairs
    ELSE IF HasKey(seen_keys, merge_pairs[j].k)
    THEN merge_pass_keep_all(pairs, seen_keys, merge_pairs, j + 1)
    ELSE merge_pass_keep_all(Append(pairs, merge_pairs[j]), seen_keys, merge_pairs, j + 1)

RECURSIVE merge_pass(_, _, _, _)
\* the second pass of construct_yaml_map: a merge pair is added unless its
\* key has been seen; its key is then seen
merge_pass(pairs, seen_keys, merge_pairs, j) ==
    IF j > Len(merge_pairs) THEN pairs
    ELSE IF HasKey(seen_keys, merge_pairs[j].k)
    THEN merge_pass(pairs, seen_keys, merge_pairs, j + 1)
    ELSE merge_pass(Append(pairs, merge_pairs[j]),
                    SetItem(seen_keys, merge_pairs[j].k, 0), merge_pairs, j + 1)

construct_yaml_map(st, n) ==
    IF ~IsMappingNode(n) THEN Raise(PyError("AssertionError"), st)
    ELSE Let(map_entries(st, n, 1, <<>>, <<>>, <<>>), LAMBDA r :
             IF ~r.ok THEN r
             ELSE Ok(DictV(OrderedDict(merge_pass(r.val.pairs, r.val.seen_keys,
                                                  r.val.merge_pairs, 1))), r.st))

\* os.path.dirname of the documents of the file system
Dirs ==
    << Pair("cfg/main.yaml", "cfg"), Pair("cfg/secrets.yaml", "cfg"),
       Pair("cfg/child.yaml", "cfg"), Pair("cfg/inc.yaml", "cfg"),
       Pair("cfg/sub/deep.yaml", "cfg/sub"), Pair("cfg/sub/secrets.yaml", "cfg/sub") >>

_directory(st) == IF HasKey(Dirs, st.name) THEN Get(Dirs, st.name) ELSE "."

_rel_path(st, file) == _directory(st) \o "/" \o file

ReadCount(rd, path) == IF path \in DOMAIN rd THEN rd[path] ELSE 0

_load_yaml_string(st, content, name, env, disable_str_expansion) ==
    Let(construct_object(NewLoader(st, name, env, disable_str_expansion), content),
        LAMBDA r : IF ~r.ok THEN r
                   ELSE Ok(IF Truthy(r.val) THEN r.val ELSE DictV(<<>>), r.st))

\* _load_yaml_internal that clears the secret registry, as load_yaml does
_load_yaml_internal_clearing(st, fname, env, disable_str_expansion) ==
    LET st1 == [st EXCEPT !.reads = Extend(@, fname, ReadCount(@, fname) + 1),
                          !.sv = [n \in {} |-> ""]]
    IN  IF ~HasKey(st.files, fname) THEN Raise(PyError("read_config_file"), st1)
        ELSE _load_yaml_string(st1, Get(st.files, fname), fname, env,
                               disable_str_expansion)

\* read_config_file(fname), then _load_yaml_string
_load_yaml_internal(st, fname, env, disable_str_expansion) ==
    LET st1 == [st EXCEPT !.reads = Extend(@, fname, ReadCount(@, fname) + 1)]
    IN  IF ~HasKey(st.files, fname) THEN Raise(PyError("read_config_file"), st1)
        ELSE _load_yaml_string(st1, Get(st.files, fname), fname, env,
                               disable_str_expansion)

\* construct_secret that keeps the name a string form was first registered under
construct_secret_keep_first(st, n) ==
    Let(_load_yaml_internal(st, _rel_path(st, SECRET_YAML), st.vars, FALSE), LAMBDA r :
    LET st1 == Back(r.st, st)
        secrets == r.val
        val == Get(secrets.pairs, n.sv)
    IN  IF ~r.ok THEN Raise(r.val, st1)
        ELSE IF ~IsDict(secrets) THEN Raise(PyError("TypeError"), st1)
        ELSE IF ~HasKey(secrets.pairs, n.sv)
        THEN Raise(MarkedYAMLError("Secret not defined", n.mark), st1)
        ELSE Ok(val, [st1 EXCEPT !.sv = IF PyStr(val) \in DOMAIN @ THEN @
                                        ELSE Extend(@, PyStr(val), n.sv),
                                 !.lookups = Append(@, [name |-> n.sv, val |-> val])]))

construct_secret(st, n) ==
    Let(_load_yaml_internal(st, _rel_path(st, SECRET_YAML), st.vars, FALSE), LAMBDA r :
    LET st1 == Back(r.st, st)
        secrets == r.val
        val == Get(secrets.pairs, n.sv)
    IN  IF ~r.ok THEN Raise(r.val, st1)
        ELSE IF ~IsDict(secrets) THEN Raise(PyError("TypeError"), st1)
        ELSE IF ~HasKey(secrets.pairs, n.sv)
        THEN Raise(MarkedYAMLError("Secret not defined", n.mark), st1)
        ELSE Ok(val, [st1 EXCEPT !.sv = Extend(@, PyStr(val), n.sv),
                                 !.lookups = Append(@, [name |-> n.sv, val |-> val])]))

\* extract_file_vars(node) of construct_include, without the git-fetched form
extract_file_vars(st, n) ==
    Let(construct_yaml_map(st, n), LAMBDA r :
    LET fields == r.val.pairs
        file == Get(fields, CONF_FILE)
        given == IF HasKey(fields, CONF_VARS) /\ Truthy(Get(fields, CONF_VARS))
                 THEN Get(fields, CONF_VARS) ELSE DictV(<<>>)
    IN  IF ~r.ok THEN r
        ELSE IF ~HasKey(fields, CONF_FILE) \/ ~IsStr(file) \/ ~IsDict(given)
        THEN Raise(PyError("Invalid"), r.st)
        ELSE Ok([path |-> _rel_path(st, file.s), vars |-> AsEnv(given.pairs)], r.st))

construct_include(st, n) ==
    Let(IF IsMappingNode(n) THEN extract_file_vars(st, n)
        ELSE Ok([path |-> _rel_path(st, n.sv), vars |-> EmptyEnv], st), LAMBDA x :
    IF ~x.ok THEN x
    ELSE Let(_load_yaml_internal(x.st, x.val.path, Union(st.vars, x.val.vars), FALSE),
             LAMBDA r : IF ~r.ok THEN Raise(r.val, Back(r.st, x.st))
                        ELSE Ok(r.val, Back(r.st, x.st))))

DefaultTag(n) ==
    IF IsScalarNode(n) THEN DEFAULT_SCALAR_TAG
    ELSE IF IsSequenceNode(n) THEN DEFAULT_SEQUENCE_TAG
    ELSE DEFAULT_MAPPING_TAG

construct_literal(st, n) ==
    Let(construct_object([st EXCEPT !.dse = TRUE, !.lit = @ + 1],
                         [n EXCEPT !.tag = DefaultTag(n)]),
        LAMBDA r : IF ~r.ok THEN r
                   ELSE Ok(r.val, [r.st EXCEPT !.dse = st.dse, !.lit = @ - 1]))

KeyIs(key, name) == key.t = "str" /\ key.s = name

RECURSIVE for_fields(_, _, _, _)
\* the loop over node.value of construct_for; acc = [items, varname, repeat]
for_fields(st, n, i, acc) ==
    IF i > Len(n.pairs) THEN Ok(acc, st)
    ELSE
    Let(construct_object(st, n.pairs[i].k), LAMBDA rk :
    LET value_node == n.pairs[i].v
    IN  IF ~rk.ok THEN rk
        ELSE IF KeyIs(rk.val, "items") \/ KeyIs(rk.val, "var")
        THEN Let(construct_object(rk.st, value_node), LAMBDA rv :
                 IF ~rv.ok THEN rv
                 ELSE IF KeyIs(rk.val, "items")
                 THEN for_fields(rv.st, n, i + 1, [acc EXCEPT !.items = rv.val])
                 ELSE for_fields(rv.st, n, i + 1, [acc EXCEPT !.varname = rv.val]))
        ELSE IF KeyIs(rk.val, "repeat")
        THEN for_fields(rk.st, n, i + 1, [acc EXCEPT !.repeat = value_node])
        ELSE for_fields(rk.st, n, i + 1, acc))

RECURSIVE for_loop_keep_child(_, _, _, _, _, _, _)
for_loop_keep_child(st, oldvars, varname, items, repeat, i, result) ==
    IF i > Len(items) THEN Ok(ForList(result), st)
    ELSE Let(construct_object([st EXCEPT !.vars = Extend(oldvars, varname, items[i])],
                              repeat),
             LAMBDA r : IF ~r.ok THEN r
                        ELSE for_loop_keep_child(r.st, oldvars, varname, items, repeat,
                                                 i + 1, Append(result, r.val)))

RECURSIVE for_loop(_, _, _, _, _, _, _)
\* the loop over items of construct_for and the restore that follows it
for_loop(st, oldvars, varname, items, repeat, i, result) ==
    IF i > Len(items) THEN Ok(ForList(result), [st EXCEPT !.vars = oldvars])
    ELSE Let(construct_object([st EXCEPT !.vars = Extend(oldvars, varname, items[i])],
                              repeat),
             LAMBDA r : IF ~r.ok THEN r
                        ELSE for_loop(r.st, oldvars, varname, items, repeat, i + 1,
                                      Append(result, r.val)))

construct_for(st, n) ==
    IF st.dse THEN Ok(Null, st)
    ELSE
    Let(for_fields(st, n, 1, [items |-> Null, varname |-> StrV("item"),
                              repeat |-> NoNode]), LAMBDA f :
    LET named == IsStr(f.val.items)
        items == IF named THEN f.st.vars[f.val.items.s] ELSE f.val.items
    IN  IF ~f.ok THEN f
        ELSE IF named /\ f.val.items.s \notin DOMAIN f.st.vars
        THEN Raise(PyError("KeyError"), f.st)
        ELSE IF ~IsList(items)
        THEN Raise(MarkedYAMLError("items must be a list", n.mark), f.st)
        ELSE IF ~IsStr(f.val.varname)
        THEN Raise(MarkedYAMLError("var must be a string", n.mark), f.st)
        ELSE IF f.val.repeat = NoNode
        THEN Raise(MarkedYAMLError("missing repeat value", n.mark), f.st)
        ELSE for_loop(f.st, f.st.vars, f.val.varname.s, items.items, f.val.repeat,
                      1, <<>>))

RECURSIVE if_fields(_, _, _, _)
\* the loop over node.value of construct_if; acc = [condition, then_node, else_node]
if_fields(st, n, i, acc) ==
    IF i > Len(n.pairs) THEN Ok(acc, st)
    ELSE
    Let(construct_object(st, n.pairs[i].k), LAMBDA rk :
    LET value_node == n.pairs[i].v
    IN  IF ~rk.ok THEN rk
        ELSE IF KeyIs(rk.val, "condition")
        THEN Let(construct_object(rk.st, value_node), LAMBDA rv :
                 IF ~rv.ok THEN rv
                 ELSE if_fields(rv.st, n, i + 1, [acc EXCEPT !.condition = rv.val]))
        ELSE IF KeyIs(rk.val, "then")
        THEN if_fields(rk.st, n, i + 1, [acc EXCEPT !.then_node = value_node])
        ELSE IF KeyIs(rk.val, "else")
        THEN if_fields(rk.st, n, i + 1, [acc EXCEPT !.else_node = value_node])
        ELSE if_fields(rk.st, n, i + 1, acc))

\* construct_if that constructs both arms before it selects one
construct_if_both_arms(st, n) ==
    IF st.dse THEN Ok(Null, st)
    ELSE
    Let(if_fields(st, n, 1, [condition |-> Null, then_node |-> NoNode,
                             else_node |-> NoNode]), LAMBDA f :
        IF ~f.ok THEN f
        ELSE IF f.val.then_node = NoNode
        THEN Raise(MarkedYAMLError("missing then value", n.mark), f.st)
        ELSE Let(construct_object(f.st, f.val.then_node), LAMBDA a :
                 IF ~a.ok THEN a
                 ELSE IF f.val.else_node = NoNode
                 THEN Ok(IF Truthy(f.val.condition) THEN a.val ELSE Null, a.st)
                 ELSE Let(construct_object(a.st, f.val.else_node), LAMBDA b :
                          IF ~b.ok THEN b
                          ELSE Ok(IF Truthy(f.val.condition) THEN a.val ELSE b.val,
                                  b.st))))

\* construct_if that takes `then` when the condition is false and there is no
\* `else`
construct_if_always_then(st, n) ==
    IF st.dse THEN Ok(Null, st)
    ELSE
    Let(if_fields(st, n, 1, [condition |-> Null, then_node |-> NoNode,
                             else_node |-> NoNode]), LAMBDA f :
        IF ~f.ok THEN f
        ELSE IF f.val.then_node = NoNode
        THEN Raise(MarkedYAMLError("missing then value", n.mark), f.st)
        ELSE IF Truthy(f.val.condition) THEN construct_object(f.st, f.val.then_node)
        ELSE IF f.val.else_node # NoNode THEN construct_object(f.st, f.val.else_node)
        ELSE construct_object(f.st, f.val.then_node))

construct_if(st, n) ==
    IF st.dse THEN Ok(Null, st)
    ELSE
    Let(if_fields(st, n, 1, [condition |-> Null, then_node |-> NoNode,
                             else_node |-> NoNode]), LAMBDA f :
        IF ~f.ok THEN f
        ELSE IF f.val.then_node = NoNode
        THEN Raise(MarkedYAMLError("missing then value", n.mark), f.st)
        ELSE IF Truthy(f.val.condition) THEN construct_object(f.st, f.val.then_node)
        ELSE IF f.val.else_node # NoNode THEN construct_object(f.st, f.val.else_node)
        ELSE Ok(Null, f.st))

HasId(item) == IsDict(item) /\ HasKey(item.pairs, CONF_ID)

\* the key of an item with an id in the index of merge
IdKey(item) == [id |-> PyStr(Get(item.pairs, CONF_ID))]

DelItem(ps, k) == SelectSeq(ps, LAMBDA p : p.k # k)

Values(ps) == [i \in 1..Len(ps) |-> ps[i].v]

RECURSIVE build_index_same_pos(_, _, _, _)
build_index_same_pos(new, i, pos, index) ==
    IF i > Len(new) THEN index
    ELSE IF HasId(new[i])
    THEN build_index_same_pos(new, i + 1, pos, SetItem(index, IdKey(new[i]), new[i]))
    ELSE build_index_same_pos(new, i + 1, pos, SetItem(index, [pos |-> pos], new[i]))

RECURSIVE build_index(_, _, _, _)
\* the first loop of merge's list branch: index maps str(id), or the running
\* count of the items without an id, to the item
build_index(new, i, pos, index) ==
    IF i > Len(new) THEN index
    ELSE IF HasId(new[i])
    THEN build_index(new, i + 1, pos, SetItem(index, IdKey(new[i]), new[i]))
    ELSE build_index(new, i + 1, pos + 1, SetItem(index, [pos |-> pos], new[i]))

RECURSIVE merge(_, _)

RECURSIVE merge_old(_, _, _, _)
\* the second loop of merge's list branch, and the concatenation it returns
merge_old(old, i, index, merged_old) ==
    IF i > Len(old) THEN merged_old \o Values(index)
    ELSE IF HasId(old[i]) /\ HasKey(index, IdKey(old[i]))
    THEN merge_old(old, i + 1, DelItem(index, IdKey(old[i])),
                   Append(merged_old, merge(old[i], Get(index, IdKey(old[i])))))
    ELSE merge_old(old, i + 1, index, Append(merged_old, old[i]))

RECURSIVE merge_dict_shallow(_, _, _, _)
merge_dict_shallow(old, new, i, res) ==
    IF i > Len(new) THEN res
    ELSE merge_dict_shallow(old, new, i + 1, SetItem(res, new[i].k, new[i].v))

RECURSIVE merge_dict(_, _, _, _)
\* the loop of merge's dict branch over new.items(), on res = old.copy()
merge_dict(old, new, i, res) ==
    IF i > Len(new) THEN res
    ELSE merge_dict(old, new, i + 1,
                    SetItem(res, new[i].k,
                            IF HasKey(old, new[i].k)
                            THEN merge(Get(old, new[i].k), new[i].v)
                            ELSE new[i].v))

\* construct_merge's inner merge(old, new)
merge(old, new) ==
    IF IsDict(new)
    THEN IF ~IsDict(old) THEN new
         ELSE DictV(merge_dict(old.pairs, new.pairs, 1, old.pairs))
    ELSE IF IsList(new)
    THEN IF ~IsList(old) THEN new
         ELSE ListV(merge_old(old.items, 1, build_index(new.items, 1, 0, <<>>), <<>>))
    ELSE IF new = Null THEN old
    ELSE new

RECURSIVE merge_fold(_, _, _)
\* value = None; for obj in mergelist: value = merge(value, obj)
merge_fold(mergelist, i, value) ==
    IF i > Len(mergelist) THEN value
    ELSE merge_fold(mergelist, i + 1, merge(value, mergelist[i]))

construct_merge(st, n) ==
    IF st.dse THEN Ok(Null, st)
    ELSE IF ~IsSequenceNode(n)
    THEN Raise(MarkedYAMLError("!merge expects a list", n.mark), st)
    ELSE Let(construct_object(st, [n EXCEPT !.tag = DEFAULT_SEQUENCE_TAG]),
             LAMBDA r : IF ~r.ok THEN r
                        ELSE Ok(merge_fold(r.val.items, 1, Null), r.st))

construct_lambda(st, n) ==
    IF ~IsScalarNode(n) THEN Raise(MarkedYAMLError("!lambda must tag a string", 0), st)
    ELSE Let(construct_object(st, [n EXCEPT !.tag = DEFAULT_SCALAR_TAG]),
             LAMBDA r : IF ~r.ok THEN r
                        ELSE Ok(Lambda(PyStr(r.val)), r.st))

\* the constructor table: ESPHomeLoader.add_constructor(tag, handler)
construct_object(st, n) ==
    CASE n.tag = "int" -> construct_yaml_int(st, n)
      [] n.tag = "float" -> construct_yaml_float(st, n)
      [] n.tag = "str" -> construct_yaml_str(st, n)
      [] n.tag = "seq" -> construct_yaml_seq(st, n)
      [] n.tag = "map" -> construct_yaml_map(st, n)
      [] n.tag = "!secret" -> construct_secret(st, n)
      [] n.tag = "!include" -> construct_include(st, n)
      [] n.tag = "!literal" -> construct_literal(st, n)
      [] n.tag = "!for" -> construct_for(st, n)
      [] n.tag = "!if" -> construct_if(st, n)
      [] n.tag = "!merge" -> construct_merge(st, n)
      [] n.tag = "!lambda" -> construct_lambda(st, n)
      [] n.tag = "bool" -> construct_yaml_bool(st, n)
      [] n.tag = "null" -> construct_yaml_null(st, n)

-----------------------------------------------------------------------------
(* Driving the loader *)

EmptyDict == [n \in {} |-> ""]

\* a loader named name over env, with the module globals as given
LoaderState(files, name, env, secret_values, history) ==
    [name |-> name, vars |-> env, dse |-> FALSE, sv |-> secret_values,
     reads |-> EmptyDict, xlog |-> <<>>, lit |-> 0, lookups |-> history,
     files |-> files]

MAIN == "cfg/main.yaml"

S(tag, value) == ScalarNode(tag, value, 1)
Q(items) == SequenceNode("seq", items, 1)
M(pairs) == MappingNode("map", pairs, 1)
K(key, value_node) == Pair(S("str", key), value_node)

\* the sequences of length 1..n over 1..k
Words(k, n) == UNION {[1..m -> 1..k] : m \in 1..n}

-----------------------------------------------------------------------------
(* construct_yaml_map on its own: mappings of up to MaxEntries entries drawn *)
(* from MapEntries, the key node of entry i marked with line i              *)

MaxEntries == 3

MapEntries ==
    << K("a", S("int", "1")),
       K("a", S("int", "2")),
       K("b", S("int", "3")),
       Pair(S("int", "1"), S("int", "4")),
       K("1", S("int", "5")),
       Pair(S("merge", "<<"), M(<< K("a", S("int", "7")), K("b", S("int", "8")) >>)),
       Pair(S("merge", "<<"), Q(<< M(<< K("b", S("int", "5")) >>),
                                   M(<< K("b", S("int", "6")), K("c", S("int", "9")) >>) >>)),
       Pair(S("merge", "<<"), S("int", "5")),
       K("c", S("str", "{{ u }}")),
       K("{{ u }}", S("str", "{{ x }}")),
       Pair(Q(<< S("int", "1") >>), S("int", "1")) >>

MapNode(w) ==
    M([i \in 1..Len(w) |->
          Pair([MapEntries[w[i]].k EXCEPT !.mark = i],
               [MapEntries[w[i]].v EXCEPT !.mark = i])])

MapEnv == [x \in {"x"} |-> IntV(2)]

NoFiles == <<>>

InitMap ==
    /\ pc = "start"
    /\ node \in {MapNode(w) : w \in Words(Len(MapEntries), MaxEntries)}
    /\ vars0 = MapEnv
    /\ ret = [ok |-> TRUE, val |-> Null]
    /\ loader = [vars |-> vars0, dse |-> FALSE]
    /\ xlog = <<>>
    /\ _SECRET_VALUES = EmptyDict
    /\ _SECRET_CACHE = EmptyDict
    /\ reads = EmptyDict
    /\ lookups = <<>>
    /\ dumpIn = Null
    /\ dumpOut = Null
    /\ cleared = FALSE

ConstructYamlMap ==
    /\ pc = "start"
    /\ \E r \in {construct_yaml_map(
                    LoaderState(NoFiles, MAIN, vars0, _SECRET_VALUES, lookups), node)} :
           /\ ret' = [ok |-> r.ok, val |-> r.val]
           /\ loader' = [vars |-> r.st.vars, dse |-> r.st.dse]
           /\ xlog' = r.st.xlog
    /\ pc' = "done"
    /\ UNCHANGED <<node, vars0, _SECRET_VALUES, _SECRET_CACHE, reads, lookups,
                   dumpIn, dumpOut, cleared>>

SpecMap == InitMap /\ [][ConstructYamlMap]_vars

\* the loader construct_yaml_map was called on
MapLoader == LoaderState(NoFiles, MAIN, vars0, EmptyDict, <<>>)

IsDirect(n, i) == n.pairs[i].k.tag # "merge"

\* the key of entry i, constructed without expansion and coerced to string
EntryKey(n, i) == PyStr(construct_object([MapLoader EXCEPT !.dse = TRUE], n.pairs[i].k).val)

\* the construction of the value of entry i
EntryValue(n, i) == construct_object(MapLoader, n.pairs[i].v)

DirectPairs(n) ==
    LET d == SelectSeq([i \in 1..Len(n.pairs) |-> i], LAMBDA i : IsDirect(n, i))
    IN  [p \in 1..Len(d) |-> Pair(EntryKey(n, d[p]), EntryValue(n, d[p]).val)]

RECURSIVE MergeCandidates(_, _)
\* the pairs offered by the << entries from entry i on, in encounter order
MergeCandidates(n, i) ==
    IF i > Len(n.pairs) THEN <<>>
    ELSE (IF IsDirect(n, i) THEN <<>>
          ELSE IF IsDict(EntryValue(n, i).val) THEN EntryValue(n, i).val.pairs
          ELSE ItemsOf(EntryValue(n, i).val.items))
         \o MergeCandidates(n, i + 1)

AdoptedPairs(n) ==
    LET c == MergeCandidates(n, 1)
        a == SelectSeq([j \in 1..Len(c) |-> j],
                       LAMBDA j : /\ ~HasKey(DirectPairs(n), c[j].k)
                                  /\ \A h \in 1..(j - 1) : c[h].k # c[j].k)
    IN  [p \in 1..Len(a) |-> c[a[p]]]

\* C1: the mapping construct_yaml_map returns holds the direct pairs in source
\* order, then the merge pairs in encounter order, a merge pair being adopted
\* only if its key is no direct key and no earlier merge pair's key; a direct
\* key keeps its own value, and no key occurs twice.
C1_MergeKeyPrecedence ==
    (pc = "done" /\ ret.ok) =>
        /\ ret.val = DictV(DirectPairs(node) \o AdoptedPairs(node))
        /\ \A i, j \in 1..Len(ret.val.pairs) :
               ret.val.pairs[i].k = ret.val.pairs[j].k => i = j
        /\ \A i \in 1..Len(node.pairs) :
               IsDirect(node, i) =>
                   Get(ret.val.pairs, EntryKey(node, i)) = EntryValue(node, i).val

\* a mapping was returned for a node whose << entry comes before a direct
\* entry with a key the << offers too, and whose << entries offer a key twice
C1_Witness ==
    /\ pc = "done" /\ ret.ok
    /\ \E m, i \in 1..Len(node.pairs) :
           /\ m < i /\ ~IsDirect(node, m) /\ IsDirect(node, i)
           /\ HasKey(MergeCandidates(node, 1), EntryKey(node, i))
    /\ \E h, j \in 1..Len(MergeCandidates(node, 1)) :
           /\ h < j
           /\ MergeCandidates(node, 1)[h].k = MergeCandidates(node, 1)[j].k
           /\ ~HasKey(DirectPairs(node), MergeCandidates(node, 1)[j].k)

\* the constructed key of entry i, before coercion
RawKey(n, i) == construct_object([MapLoader EXCEPT !.dse = TRUE], n.pairs[i].k).val

\* entries i < j are direct and have (hashable) keys that are the same after
\* coercion to string
DuplicateAt(n, i, j) ==
    /\ i < j /\ IsDirect(n, i) /\ IsDirect(n, j)
    /\ ~Unhashable(RawKey(n, i)) /\ ~Unhashable(RawKey(n, j))
    /\ EntryKey(n, i) = EntryKey(n, j)

HasDuplicate(n) == \E i, j \in 1..Len(n.pairs) : DuplicateAt(n, i, j)

IsDuplicateKeyError(r) == ~r.ok /\ r.val.context = "Duplicate key"

\* entry e is constructed without an error of its own
EntryConstructs(n, e) ==
    /\ EntryValue(n, e).ok
    /\ IF IsDirect(n, e)
       THEN ~Unhashable(RawKey(n, e))
       ELSE \/ IsDict(EntryValue(n, e).val)
            \/ /\ IsList(EntryValue(n, e).val)
               /\ \A k \in 1..Len(EntryValue(n, e).val.items) :
                      IsDict(EntryValue(n, e).val.items[k])

\* C2 as claimed: two direct entries with equal keys make the construction
\* fail with the Duplicate-key error carrying the later and the earlier key's
\* location; without such entries the Duplicate-key error is never raised.
C2_AsClaimed ==
    pc = "done" =>
        /\ HasDuplicate(node) =>
               /\ IsDuplicateKeyError(ret)
               /\ \E i, j \in 1..Len(node.pairs) :
                      /\ DuplicateAt(node, i, j)
                      /\ ret.val.context_mark = node.pairs[j].k.mark
                      /\ ret.val.problem_mark = node.pairs[i].k.mark
        /\ ~HasDuplicate(node) => ~IsDuplicateKeyError(ret)

\* C2, amended: with two direct entries of equal keys no mapping is returned,
\* and the error is the Duplicate-key error with the later and the earlier
\* key's location unless an entry up to and including the later one fails to
\* construct on its own; without such entries the Duplicate-key error is
\* never raised, also when a direct key equals a key offered through <<.
C2_DuplicateKey ==
    pc = "done" =>
        /\ HasDuplicate(node) => ~ret.ok
        /\ \A i, j \in 1..Len(node.pairs) :
               ( /\ DuplicateAt(node, i, j)
                 /\ \A h \in 1..(j - 1) : ~\E g \in 1..(h - 1) : DuplicateAt(node, g, h)
                 /\ \A e \in 1..j : EntryConstructs(node, e) )
               => /\ IsDuplicateKeyError(ret)
                  /\ ret.val.context_mark = node.pairs[j].k.mark
                  /\ ret.val.problem_mark = node.pairs[i].k.mark
        /\ ~HasDuplicate(node) => ~IsDuplicateKeyError(ret)

\* the Duplicate-key error was raised for an int key and a str key that are
\* equal only after coercion to string
C2_Witness ==
    /\ pc = "done" /\ IsDuplicateKeyError(ret)
    /\ \E i, j \in 1..Len(node.pairs) :
           /\ DuplicateAt(node, i, j)
           /\ node.pairs[i].k.tag # node.pairs[j].k.tag
           /\ ret.val.context_mark = node.pairs[j].k.mark

\* a mapping was returned whose direct key is also offered through <<
C2_WitnessMergeOverlap ==
    /\ pc = "done" /\ ret.ok
    /\ \E i \in 1..Len(node.pairs) :
           IsDirect(node, i) /\ HasKey(MergeCandidates(node, 1), EntryKey(node, i))

-----------------------------------------------------------------------------
(* _load_yaml_string on a document  seq: [...]  whose sequence has up to    *)
(* MaxLen elements drawn from SeqItems, next to the files of LoadFiles      *)

MaxLen == 2

IntList(a, b) == Q(<< S("int", a), S("int", b) >>)

For(items, varname, repeat) ==
    MappingNode("!for", << K("items", items), K("var", S("str", varname)),
                           K("repeat", repeat) >>, 1)

IfThen(condition, then_node) ==
    MappingNode("!if", << K("condition", condition), K("then", then_node) >>, 1)

LoadFiles ==
    << Pair("cfg/child.yaml", Q(<< S("str", "{{ x }}"), S("str", "plain") >>)),
       Pair("cfg/loop.yaml",
            MappingNode("!for", << K("items", IntList("1", "2")),
                                   K("repeat", S("str", "{{ item }}")) >>, 1)) >>

SeqItems ==
    << S("int", "1"),
       S("str", "{{ x }}"),
       S("str", "{{ item }}"),
       MappingNode("!for", << K("items", IntList("2", "3")),
                              K("repeat", S("str", "{{ item }}")) >>, 1),
       For(IntList("2", "3"), "x", Q(<< S("str", "{{ x }}") >>)),
       For(IntList("1", "2"), "item",
           For(IntList("3", "4"), "j", S("str", "{{ j }}"))),
       For(IntList("1", "2"), "item",
           Q(<< For(Q(<< S("int", "3") >>), "j", S("str", "{{ j }}")),
                S("str", "{{ item }}") >>)),
       For(Q(<< S("int", "1") >>), "item", S("str", "{{ u }}")),
       For(IntList("1", "2"), "item", IfThen(S("bool", "false"), S("int", "5"))),
       IfThen(S("bool", "false"), S("int", "1")),
       ScalarNode("!literal", "{{ x }}", 1),
       S("!include", "child.yaml"),
       MappingNode("!include", << K("file", S("str", "child.yaml")),
                                  K("vars", M(<< K("x", S("int", "7")) >>)) >>, 1),
       SequenceNode("!literal", << S("!include", "child.yaml") >>, 1) >>

LoadEnvs == {EmptyDict, [x \in {"x"} |-> IntV(2)]}

InitLoad ==
    /\ pc = "start"
    /\ node \in {M(<< K("seq", Q([i \in 1..Len(w) |-> SeqItems[w[i]]])) >>) :
                    w \in Words(Len(SeqItems), MaxLen)}
    /\ vars0 \in LoadEnvs
    /\ ret = [ok |-> TRUE, val |-> Null]
    /\ loader = [vars |-> vars0, dse |-> FALSE]
    /\ xlog = <<>>
    /\ _SECRET_VALUES = EmptyDict
    /\ _SECRET_CACHE = EmptyDict
    /\ reads = EmptyDict
    /\ lookups = <<>>
    /\ dumpIn = Null
    /\ dumpOut = Null
    /\ cleared = FALSE

LoadYamlString ==
    /\ pc = "start"
    /\ \E r \in {_load_yaml_string(
                    LoaderState(LoadFiles, MAIN, vars0, _SECRET_VALUES, lookups),
                    node, MAIN, vars0, FALSE)} :
           /\ ret' = [ok |-> r.ok, val |-> r.val]
           /\ loader' = [vars |-> r.st.vars, dse |-> r.st.dse]
           /\ xlog' = r.st.xlog
           /\ reads' = r.st.reads
    /\ pc' = "done"
    /\ UNCHANGED <<node, vars0, _SECRET_VALUES, _SECRET_CACHE, lookups, dumpIn, dumpOut,
                   cleared>>

SpecLoad == InitLoad /\ [][LoadYamlString]_vars

\* the loader the document was loaded with
LoadLoader(env) == LoaderState(LoadFiles, MAIN, env, EmptyDict, <<>>)

RECURSIVE Flat(_)
\* the concatenation of a sequence of sequences
Flat(ss) == IF Len(ss) = 0 THEN <<>> ELSE Head(ss) \o Flat(Tail(ss))

HasField(n, name) == \E i \in 1..Len(n.pairs) : n.pairs[i].k.sv = name

\* the node written under the key name of a directive's mapping
Field(n, name) == n.pairs[CHOOSE i \in 1..Len(n.pairs) : n.pairs[i].k.sv = name].v

ForVar(n) == IF HasField(n, "var") THEN Field(n, "var").sv ELSE "item"

\* the items of a !for written as an inline list
ForItems(n, env) == construct_object(LoadLoader(env), Field(n, "items")).val.items

\* repeat constructed for the k-th item in the environment env extended by it
IterationResult(n, env, k) ==
    construct_object(LoadLoader(Extend(env, ForVar(n), ForItems(n, env)[k])),
                     Field(n, "repeat")).val

RECURSIVE Spliced(_)
\* what a value contributes to the sequence it is an element of
Spliced(v) ==
    IF v.t = "null" THEN <<>>
    ELSE IF v.t = "forlist" THEN Flat([i \in 1..Len(v.items) |-> Spliced(v.items[i])])
    ELSE <<v>>

TopSeq == node.pairs[1].v.items

\* what the elements of the document's sequence contribute, one !for
\* iteration contributing as PerIteration says
Contributions(PerIteration(_)) ==
    Flat([c \in 1..Len(TopSeq) |->
            IF TopSeq[c].tag = "!for"
            THEN Flat([k \in 1..Len(ForItems(TopSeq[c], vars0)) |->
                         PerIteration(IterationResult(TopSeq[c], vars0, k))])
            ELSE Spliced(construct_object(LoadLoader(vars0), TopSeq[c]).val)])

\* a result that is not null is one element
OneElement(v) == IF v.t = "null" THEN <<>> ELSE <<v>>

\* C3 as claimed: the results of the iterations of a !for are spliced into the
\* parent sequence in item order, each result (that is not null) as exactly
\* one element.
C3_AsClaimed ==
    (pc = "done" /\ ret.ok) =>
        ret.val.pairs[1].v = ListV(Contributions(OneElement))

\* C3, amended: the results of the iterations are spliced into the parent
\* sequence in item order; a result that is a plain sequence stays one
\* element, a null result is dropped, and a result that is itself the output
\* of a !for is spliced in turn, to any depth.
C3_ForFlattening ==
    (pc = "done" /\ ret.ok) =>
        ret.val.pairs[1].v = ListV(Contributions(Spliced))

\* a document was loaded with a !for whose iterations yield sequences and a
\* !for whose repeat is a !for
C3_Witness ==
    /\ pc = "done" /\ ret.ok
    /\ \E c \in 1..Len(TopSeq) :
           TopSeq[c].tag = "!for" /\ IterationResult(TopSeq[c], vars0, 1).t = "list"
    /\ \E c \in 1..Len(TopSeq) :
           TopSeq[c].tag = "!for" /\ IterationResult(TopSeq[c], vars0, 1).t = "forlist"

\* C4: whenever the construction ends, by return or by an error, the
\* loader's environment is the one it had before the directives were entered.
C4_AsClaimed == pc = "done" => loader.vars = vars0

RECURSIVE Scopes(_, _)
\* the strings of a document that reach the expander and the environment
\* each is to be expanded in, when environments are scoped by the directives
Scopes(n, env) ==
    CASE n.tag = "str" -> << [s |-> n.sv, vars |-> env] >>
      [] n.tag = "seq" -> Flat([i \in 1..Len(n.items) |-> Scopes(n.items[i], env)])
      [] n.tag = "map" -> Flat([i \in 1..Len(n.pairs) |-> Scopes(n.pairs[i].v, env)])
      [] n.tag = "!for" ->
            Flat([i \in 1..Len(n.pairs) |->
                    Scopes(n.pairs[i].k, env)
                    \o (IF n.pairs[i].k.sv = "repeat" THEN <<>>
                        ELSE Scopes(n.pairs[i].v, env))])
            \o Flat([k \in 1..Len(ForItems(n, env)) |->
                       Scopes(Field(n, "repeat"),
                              Extend(env, ForVar(n), ForItems(n, env)[k]))])
      [] n.tag = "!if" ->
            Flat([i \in 1..Len(n.pairs) |->
                    Scopes(n.pairs[i].k, env)
                    \o (IF n.pairs[i].k.sv = "condition"
                        THEN Scopes(n.pairs[i].v, env) ELSE <<>>)])
            \o (IF Truthy(construct_object(LoadLoader(env), Field(n, "condition")).val)
                THEN Scopes(Field(n, "then"), env)
                ELSE IF HasField(n, "else") THEN Scopes(Field(n, "else"), env)
                ELSE <<>>)
      [] n.tag = "!include" ->
            IF IsMappingNode(n)
            THEN Scopes([n EXCEPT !.tag = "map"], env)
                 \o Scopes(Get(LoadFiles, "cfg/" \o Field(n, "file").sv),
                           Union(env, AsEnv(construct_object(LoadLoader(env),
                                                Field(n, "vars")).val.pairs)))
            ELSE Scopes(Get(LoadFiles, "cfg/" \o n.sv), env)
      [] OTHER -> <<>>

\* the expansions made outside every !literal
Expansions ==
    LET e == SelectSeq(xlog, LAMBDA x : x.lit = 0)
    IN  [i \in 1..Len(e) |-> [s |-> e[i].s, vars |-> e[i].vars]]

\* C5: every string is expanded in the environment of its scope: the
\* loader's environment extended by the variables of the enclosing !for
\* iterations and !include vars, and by nothing else; and when the load
\* returns the loader's environment is the one it was given.
C5_ChildEnvironment ==
    pc = "done" =>
        LET made == Expansions
            scoped == Scopes(node, vars0)
        IN  /\ Len(made) <= Len(scoped)
            /\ made = SubSeq(scoped, 1, Len(made))
            /\ ret.ok => /\ Len(made) = Len(scoped)
                         /\ loader.vars = vars0

\* a load returned in which a string was expanded in a child environment
\* and a later string in the loader's own environment again
C5_Witness ==
    /\ pc = "done" /\ ret.ok
    /\ \E i, j \in 1..Len(xlog) :
           /\ i < j
           /\ xlog[i].vars # vars0
           /\ xlog[j].vars = vars0 /\ xlog[j].s \in {"{{ x }}", "{{ item }}"}

\* C6: no string below a !literal node reaches the expander, and after the
\* node the flag is what it was before.
C6_AsClaimed ==
    pc = "done" =>
        /\ \A i \in 1..Len(xlog) : xlog[i].lit = 0
        /\ ret.ok => loader.dse = FALSE

-----------------------------------------------------------------------------
(* construct_merge on  !merge [old, new]  with two sequences of up to       *)
(* MaxItems items, or two mappings of up to MaxKeys keys                    *)

MaxItems == 2
MaxKeys == 2

WithId(id_node, key, value) == M(<< K("id", id_node), K(key, S("int", value)) >>)

OldItems ==
    << WithId(S("str", "a"), "v", "1"),
       WithId(S("str", "b"), "w", "3"),
       M(<< K("id", S("int", "1")) >>),
       S("int", "5"),
       M(<< K("v", S("int", "7")) >>) >>

NewItems ==
    << WithId(S("str", "a"), "v", "2"),
       WithId(S("str", "b"), "u", "4"),
       WithId(S("str", "1"), "v", "5"),
       S("int", "6"),
       M(<< K("v", S("int", "8")) >>) >>

OldValues ==
    << S("int", "1"), M(<< K("z", S("int", "1")) >>), Q(<< S("int", "1") >>) >>

NewValues ==
    << S("null", "~"), S("int", "2"), M(<< K("y", S("int", "2")) >>),
       Q(<< S("int", "2") >>) >>

OldKeys == <<"p", "q">>
NewKeys == <<"q", "r", "p">>

\* the sequence nodes of up to n items drawn from alphabet
SeqNodes(alphabet, n) ==
    {Q(<<>>)} \cup {Q([i \in 1..Len(w) |-> alphabet[w[i]]]) : w \in Words(Len(alphabet), n)}

\* the mapping nodes of up to n entries with distinct keys
MapNodes(keys, values, n) ==
    {M(<<>>)} \cup
    {M([i \in 1..Len(w) |-> K(keys[w[i][1]], values[w[i][2]])]) :
        w \in {x \in UNION {[1..m -> (1..Len(keys)) \X (1..Len(values))] : m \in 1..n} :
                  \A i, j \in 1..Len(x) : x[i][1] = x[j][1] => i = j}}

MergeNode(old, new) == SequenceNode("!merge", <<old, new>>, 1)

InitMerge ==
    /\ pc = "start"
    /\ node \in {MergeNode(o, n) : o \in SeqNodes(OldItems, MaxItems),
                                   n \in SeqNodes(NewItems, MaxItems)}
            \cup {MergeNode(o, n) : o \in MapNodes(OldKeys, OldValues, MaxKeys),
                                    n \in MapNodes(NewKeys, NewValues, MaxKeys)}
    /\ vars0 = EmptyDict
    /\ ret = [ok |-> TRUE, val |-> Null]
    /\ loader = [vars |-> vars0, dse |-> FALSE]
    /\ xlog = <<>>
    /\ _SECRET_VALUES = EmptyDict
    /\ _SECRET_CACHE = EmptyDict
    /\ reads = EmptyDict
    /\ lookups = <<>>
    /\ dumpIn = Null
    /\ dumpOut = Null
    /\ cleared = FALSE

ConstructMerge ==
    /\ pc = "start"
    /\ \E r \in {construct_merge(
                    LoaderState(NoFiles, MAIN, vars0, _SECRET_VALUES, lookups), node)} :
           /\ ret' = [ok |-> r.ok, val |-> r.val]
           /\ loader' = [vars |-> r.st.vars, dse |-> r.st.dse]
           /\ xlog' = r.st.xlog
    /\ pc' = "done"
    /\ UNCHANGED <<node, vars0, _SECRET_VALUES, _SECRET_CACHE, reads, lookups,
                   dumpIn, dumpOut, cleared>>

SpecMerge == InitMerge /\ [][ConstructMerge]_vars

\* the k-th operand of the !merge, constructed
Operand(k) == construct_object(LoaderState(NoFiles, MAIN, vars0, EmptyDict, <<>>),
                               node.items[k]).val

IdOf(item) == PyStr(Get(item.pairs, CONF_ID))

\* the rank of item i among the items of xs without an id
Rank(xs, i) == Cardinality({h \in 1..(i - 1) : ~HasId(xs[h])})

\* the identity key of item i of xs as claimed: its id, else its rank
ClaimedKey(xs, i) == IF HasId(xs[i]) THEN [id |-> IdOf(xs[i])] ELSE [pos |-> Rank(xs, i)]

ClaimedMerge(old, new) ==
    [i \in 1..Len(old) |->
        IF \E j \in 1..Len(new) : ClaimedKey(new, j) = ClaimedKey(old, i)
        THEN merge(old[i], new[CHOOSE j \in 1..Len(new) :
                                   ClaimedKey(new, j) = ClaimedKey(old, i)])
        ELSE old[i]]
    \o SelectSeq(new, LAMBDA x :
                    \A j \in 1..Len(new) :
                        new[j] = x => \A i \in 1..Len(old) :
                                          ClaimedKey(new, j) # ClaimedKey(old, i))

\* no two items of xs have the same key
UniqueKeys(xs) == \A i, j \in 1..Len(xs) : ClaimedKey(xs, i) = ClaimedKey(xs, j) => i = j

\* C7 as claimed: every item is keyed by its id or else by its rank; an old
\* item whose key a new item has is replaced by the deep merge of the two, and
\* the new items whose key no old item has follow in new's order (for
\* sequences in which no id occurs twice).
C7_AsClaimed ==
    (/\ pc = "done" /\ IsList(Operand(1)) /\ IsList(Operand(2))
     /\ UniqueKeys(Operand(1).items) /\ UniqueKeys(Operand(2).items)) =>
        ret.val = ListV(ClaimedMerge(Operand(1).items, Operand(2).items))

\* the new items with the id of item
SameId(new, item) == {j \in 1..Len(new) : HasId(new[j]) /\ IdOf(new[j]) = IdOf(item)}

Last(js) == CHOOSE j \in js : \A h \in js : h <= j
First(js) == CHOOSE j \in js : \A h \in js : j <= h

\* old item i is the first old item of its id, and new has an item of that id
Reconciled(old, new, i) ==
    /\ HasId(old[i])
    /\ SameId(new, old[i]) # {}
    /\ \A h \in 1..(i - 1) : ~(HasId(old[h]) /\ IdOf(old[h]) = IdOf(old[i]))

IdMerge(old, new) ==
    LET kept == SelectSeq([j \in 1..Len(new) |-> j],
                          LAMBDA j : HasId(new[j]) =>
                                        /\ j = First(SameId(new, new[j]))
                                        /\ SameId(old, new[j]) = {})
    IN  [i \in 1..Len(old) |->
            IF Reconciled(old, new, i)
            THEN merge(old[i], new[Last(SameId(new, old[i]))])
            ELSE old[i]]
        \o [p \in 1..Len(kept) |->
               IF HasId(new[kept[p]]) THEN new[Last(SameId(new, new[kept[p]]))]
               ELSE new[kept[p]]]

\* C7, amended: only mappings with an id are reconciled, by str(id). The
\* result is the old sequence, same length and order, in which the first old
\* item of each id that new has too is replaced by its deep merge with the
\* last new item of that id; then follow, in new's order, every new item
\* without an id and, for each id that no old item has, the last new item of
\* that id at the place of the first.
C7_MergeById ==
    (pc = "done" /\ IsList(Operand(1)) /\ IsList(Operand(2))) =>
        ret.val = ListV(IdMerge(Operand(1).items, Operand(2).items))

\* two sequences were merged: an old item was merged with its new
\* counterpart, and items without an id were on both sides
C7_Witness ==
    /\ pc = "done" /\ IsList(Operand(1)) /\ IsList(Operand(2))
    /\ \E i \in 1..Len(Operand(1).items) :
           /\ Reconciled(Operand(1).items, Operand(2).items, i)
           /\ ret.val.items[i] # Operand(1).items[i]
    /\ \E i \in 1..Len(Operand(1).items) : ~HasId(Operand(1).items[i])
    /\ \E j \in 1..Len(Operand(2).items) : ~HasId(Operand(2).items[j])

\* the value of a key both mappings have
SharedValue(ov, nv) ==
    IF nv = Null THEN ov
    ELSE IF (IsDict(nv) /\ IsDict(ov)) \/ (IsList(nv) /\ IsList(ov)) THEN merge(ov, nv)
    ELSE nv

\* C8: merging a mapping new into a mapping old gives old's keys in their
\* order, then the keys only new has in new's order; a key only one has keeps
\* its value, and a shared key has the deep merge of the two values, where a
\* null new value keeps the old one and a scalar or a value of another kind
\* replaces it.
C8_MergeMapping ==
    (pc = "done" /\ IsDict(Operand(1)) /\ IsDict(Operand(2))) =>
        LET old == Operand(1).pairs
            new == Operand(2).pairs
        IN  /\ IsDict(ret.val)
            /\ Keys(ret.val.pairs)
                   = Keys(old) \o SelectSeq(Keys(new), LAMBDA k : ~HasKey(old, k))
            /\ \A i \in 1..Len(ret.val.pairs) :
                   LET k == ret.val.pairs[i].k
                   IN  ret.val.pairs[i].v =
                           IF ~HasKey(new, k) THEN Get(old, k)
                           ELSE IF ~HasKey(old, k) THEN Get(new, k)
                           ELSE SharedValue(Get(old, k), Get(new, k))

\* two mappings were merged that share a key whose new value is null and a
\* key whose values are both mappings, and new has a key of its own
C8_Witness ==
    /\ pc = "done" /\ IsDict(Operand(1)) /\ IsDict(Operand(2))
    /\ \E k \in Range(Keys(Operand(2).pairs)) :
           HasKey(Operand(1).pairs, k) /\ Get(Operand(2).pairs, k) = Null
    /\ \E k \in Range(Keys(Operand(2).pairs)) : ~HasKey(Operand(1).pairs, k)

-----------------------------------------------------------------------------
(* ESPHomeDumper: the representers, over the values the loader constructs   *)

\* is_secret(value): the name registered for str(value), or None
is_secret(secret_values, value) ==
    IF PyStr(value) \in DOMAIN secret_values THEN StrV(secret_values[PyStr(value)])
    ELSE Null

represent_scalar(tag, value) == ScalarNode(tag, value, 0)

represent_secret(secret_values, value) ==
    represent_scalar("!secret", secret_values[PyStr(value)])

represent_stringify(secret_values, value) ==
    IF Truthy(is_secret(secret_values, value)) THEN represent_secret(secret_values, value)
    ELSE represent_scalar("str", PyStr(value))

represent_bool(secret_values, value) ==
    represent_scalar("bool", IF value.b THEN "true" ELSE "false")

represent_int(secret_values, value) ==
    IF Truthy(is_secret(secret_values, value)) THEN represent_secret(secret_values, value)
    ELSE represent_scalar("int", PyStr(value))

\* the floats of the model are finite and have a decimal part in their repr
represent_float(secret_values, value) ==
    IF Truthy(is_secret(secret_values, value)) THEN represent_secret(secret_values, value)
    ELSE represent_scalar("float", PyRepr(value))

represent_lambda(secret_values, value) ==
    IF Truthy(is_secret(secret_values, StrV(value.value)))
    THEN represent_secret(secret_values, StrV(value.value))
    ELSE represent_scalar("!lambda", value.value)

represent_id(secret_values, value) ==
    IF Truthy(is_secret(secret_values, StrV(value.id)))
    THEN represent_secret(secret_values, StrV(value.id))
    ELSE represent_stringify(secret_values, StrV(value.id))

RECURSIVE represent_data(_, _)

represent_mapping(secret_values, mapping) ==
    MappingNode("map",
                [i \in 1..Len(mapping.pairs) |->
                    Pair(represent_data(secret_values, StrV(mapping.pairs[i].k)),
                         represent_data(secret_values, mapping.pairs[i].v))], 0)

represent_sequence(secret_values, sequence) ==
    SequenceNode("seq",
                 [i \in 1..Len(sequence.items) |->
                     represent_data(secret_values, sequence.items[i])], 0)

\* the representer table: ESPHomeDumper.add_multi_representer(type, representer)
represent_data(secret_values, value) ==
    CASE value.t = "dict" -> represent_mapping(secret_values, value)
      [] value.t \in {"list", "forlist"} -> represent_sequence(secret_values, value)
      [] value.t = "bool" -> represent_bool(secret_values, value)
      [] value.t = "str" -> represent_stringify(secret_values, value)
      [] value.t = "int" -> represent_int(secret_values, value)
      [] value.t = "float" -> represent_float(secret_values, value)
      [] value.t = "lambda" -> represent_lambda(secret_values, value)
      [] value.t = "id" -> represent_id(secret_values, value)
      [] value.t = "null" -> represent_scalar("null", "null")

-----------------------------------------------------------------------------
(* load_yaml and dump against the module's secret registry: documents of    *)
(* `!secret` and `!include` tags, at most MaxLookups tags between two       *)
(* clearings of the registry                                                *)

MaxLookups == 2

SECRETS == "cfg/secrets.yaml"

SecretFiles ==
    << Pair(SECRETS,
            M(<< K("pin", S("int", "1")),
                 K("one", S("str", "1")),
                 K("flag", S("bool", "true")),
                 K("ratio", S("float", "1.0")),
                 K("", S("int", "7")) >>)),
       Pair("cfg/inc.yaml", Q(<< S("!secret", "pin") >>)) >>

SecretTags ==
    << S("!secret", "pin"), S("!secret", "one"), S("!secret", "flag"),
       S("!secret", "ratio"), S("!secret", ""), S("!include", "inc.yaml") >>

SecretDocs(n) == {Q([i \in 1..Len(w) |-> SecretTags[w[i]]]) : w \in Words(Len(SecretTags), n)}

DumpValues ==
    { IntV(1), StrV("1"), FloatV(1), BoolV(TRUE), IntV(7), Lambda("1"), ID("1"),
      ListV(<< IntV(1), BoolV(TRUE) >>), DictV(<< Pair("k", StrV("1")) >>) }

InitSecret ==
    /\ pc = "start"
    /\ node = NoNode
    /\ vars0 = EmptyDict
    /\ ret = [ok |-> TRUE, val |-> Null]
    /\ loader = [vars |-> vars0, dse |-> FALSE]
    /\ xlog = <<>>
    /\ _SECRET_VALUES = EmptyDict
    /\ _SECRET_CACHE = EmptyDict
    /\ reads = EmptyDict
    /\ lookups = <<>>
    /\ dumpIn = Null
    /\ dumpOut = Null
    /\ cleared = FALSE

\* load_yaml(MAIN, clear_secrets) with doc as the content of MAIN. reads counts
\* the read_config_file calls of this load and lookups is the history of the
\* !secret lookups since the registry was last cleared. A run loads and then
\* dumps: a dump changes nothing a load reads, so the loads that could follow
\* a dump are the loads before it. cleared records that the load began with
\* an empty registry: it was called with clear_secrets true, or nothing had
\* been registered since the last clearing.
LoadYaml(doc, clear_secrets) ==
    /\ pc \in {"start", "loaded"}
    /\ (IF clear_secrets THEN 0 ELSE Len(lookups)) + Len(doc.items) <= MaxLookups
    /\ \E r \in {_load_yaml_internal(
                    LoaderState(Append(SecretFiles, Pair(MAIN, doc)), MAIN, vars0,
                                IF clear_secrets THEN EmptyDict ELSE _SECRET_VALUES,
                                IF clear_secrets THEN <<>> ELSE lookups),
                    MAIN, vars0, FALSE)} :
           /\ ret' = [ok |-> r.ok,
                      val |-> IF r.ok /\ IsDict(r.val)
                                      /\ HasKey(r.val.pairs, CONF_SUBSTITUTIONS)
                              THEN DictV(DelItem(r.val.pairs, CONF_SUBSTITUTIONS))
                              ELSE r.val]
           /\ loader' = [vars |-> r.st.vars, dse |-> r.st.dse]
           /\ xlog' = r.st.xlog
           /\ _SECRET_VALUES' = r.st.sv
           /\ reads' = r.st.reads
           /\ lookups' = r.st.lookups
    /\ _SECRET_CACHE' = IF clear_secrets THEN EmptyDict ELSE _SECRET_CACHE
    /\ node' = doc
    /\ pc' = "loaded"
    /\ cleared' = (clear_secrets \/ lookups = <<>>)
    /\ UNCHANGED <<vars0, dumpIn, dumpOut>>

\* dump(value)
Dump(value) ==
    /\ pc \in {"loaded", "dumped"}
    /\ dumpIn' = value
    /\ dumpOut' = represent_data(_SECRET_VALUES, value)
    /\ pc' = "dumped"
    /\ UNCHANGED <<node, vars0, ret, loader, xlog, _SECRET_VALUES, _SECRET_CACHE,
                   reads, lookups, cleared>>

NextSecret ==
    \/ \E doc \in SecretDocs(MaxLookups), clear_secrets \in BOOLEAN :
           LoadYaml(doc, clear_secrets)
    \/ \E value \in DumpValues : Dump(value)

SpecSecret == InitSecret /\ [][NextSecret]_vars

RECURSIVE LeafPairs(_, _)
\* the scalars of a dumped tree, each with the node written for it
LeafPairs(value, out) ==
    CASE IsList(value) ->
             UNION {LeafPairs(value.items[i], out.items[i]) : i \in 1..Len(value.items)}
      [] IsDict(value) ->
             UNION {LeafPairs(value.pairs[i].v, out.pairs[i].v) : i \in 1..Len(value.pairs)}
      [] OTHER -> {<<value, out>>}

\* leaf is the literal value v: v itself, or a Lambda or an identifier whose
\* text is the string v
IsLiteral(leaf, v) ==
    \/ leaf = v
    \/ IsStr(v) /\ leaf \in {Lambda(v.s), ID(v.s)}

\* str() of what the representer of leaf looks up in the registry
Form(leaf) ==
    CASE leaf.t = "lambda" -> leaf.value
      [] leaf.t = "id" -> leaf.id
      [] OTHER -> PyStr(leaf)

Secret(name) == ScalarNode("!secret", name, 0)

\* C9 as claimed: once `!secret foo` resolved to v, and until the registry is
\* cleared, a dump writes `!secret foo` for every v in the tree (foo not the
\* empty name).
C9_AsClaimed ==
    pc = "dumped" =>
        \A p \in LeafPairs(dumpIn, dumpOut) : \A i \in 1..Len(lookups) :
            (IsLiteral(p[1], lookups[i].val) /\ lookups[i].name # "") =>
                p[2] = Secret(lookups[i].name)

\* the lookups whose value has the string form of leaf
SameForm(leaf) == {i \in 1..Len(lookups) : PyStr(lookups[i].val) = Form(leaf)}

\* C9, amended: once `!secret foo` resolved to v, and until the registry is
\* cleared, a dump writes for every v in the tree that is not a boolean the
\* tag `!secret n`, n being the name of the most recent lookup whose value has
\* the string form of v, provided n is not empty; a boolean is written as
\* true or false.
C9_SecretRedaction ==
    pc = "dumped" =>
        \A p \in LeafPairs(dumpIn, dumpOut) : \A i \in 1..Len(lookups) :
            IsLiteral(p[1], lookups[i].val) =>
                IF p[1].t = "bool"
                THEN p[2] = ScalarNode("bool", IF p[1].b THEN "true" ELSE "false", 0)
                ELSE LET n == lookups[Last(SameForm(p[1]))].name
                     IN  n # "" => p[2] = Secret(n)

\* a value that an earlier of two lookups resolved to was dumped as a
\* `!secret` tag
C9_Witness ==
    /\ pc = "dumped"
    /\ Len(lookups) = 2
    /\ \E p \in LeafPairs(dumpIn, dumpOut) :
           /\ IsLiteral(p[1], lookups[1].val)
           /\ p[2] = Secret(lookups[1].name)

\* C10 as claimed: one load reads the secrets document of a path at most once.
C10_AsClaimed ==
    pc = "loaded" => ReadCount(reads, SECRETS) <= 1

\* the string forms under which the lookups of hist are registered
Forms(hist) == {PyStr(hist[i].val) : i \in 1..Len(hist)}

\* the name of the most recent lookup of hist whose value has the string form k
LastName(hist, k) == hist[Last({i \in 1..Len(hist) : PyStr(hist[i].val) = k})].name

\* the lookups made by the load that leads to the next state
LoadLookups ==
    SubSeq(lookups', (IF cleared' THEN 0 ELSE Len(lookups)) + 1, Len(lookups'))

\* C11: a load with clear_secrets true returns with an empty document cache and
\* with a registry that holds exactly the pairs recorded by its own `!secret`
\* lookups, those made inside its recursive loads included; a load with
\* clear_secrets false keeps every pair recorded before it except under a
\* string form that one of its own lookups records again. A pair is the string
\* form of the value with the name of the most recent lookup of that form.
C11_SecretLifecycle ==
    [][pc' = "loaded" =>
          LET mine == LoadLookups
          IN  /\ Len(mine) = Len(node'.items)
              /\ \A k \in Forms(mine) :
                     k \in DOMAIN _SECRET_VALUES'
                         /\ _SECRET_VALUES'[k] = LastName(mine, k)
              /\ IF cleared'
                 THEN /\ DOMAIN _SECRET_VALUES' = Forms(mine)
                      /\ _SECRET_CACHE' = EmptyDict
                 ELSE /\ DOMAIN _SECRET_VALUES' = (DOMAIN _SECRET_VALUES) \cup Forms(mine)
                      /\ \A k \in (DOMAIN _SECRET_VALUES) \ Forms(mine) :
                             _SECRET_VALUES'[k] = _SECRET_VALUES[k]
                      /\ SubSeq(lookups', 1, Len(lookups)) = lookups
                      /\ _SECRET_CACHE' = _SECRET_CACHE]_vars

\* a load of one tag that did not clear returned with the pair of an earlier
\* load still registered next to its own
C11_Witness ==
    /\ pc = "loaded"
    /\ ~cleared
    /\ ret.ok
    /\ Len(node.items) = 1
    /\ Len(lookups) = 2
    /\ PyStr(lookups[1].val) # PyStr(lookups[2].val)
    /\ DOMAIN _SECRET_VALUES = Forms(lookups)
    /\ _SECRET_VALUES[PyStr(lookups[1].val)] = lookups[1].name

-----------------------------------------------------------------------------
(* load_vars: the substitutions of a document and the command-line          *)
(* overrides, up to MaxSubs substitutions in the file and MaxOverrides      *)
(* overrides                                                                *)

\* cv.Invalid(message)
Invalid(message) ==
    [t |-> "error", cls |-> "Invalid", context |-> message,
     context_mark |-> 0, problem_mark |-> 0]

\* esphome.jinja.validate_vars: the names of the model are valid names, and
\* the values are left as they are
validate_vars(substitutions) == substitutions

RECURSIVE parse_overrides(_, _, _, _)
\* {key: _load_yaml_string(value, "command line variable", None, True) ...}
parse_overrides(st, override_vars, i, acc) ==
    IF i > Len(override_vars) THEN Ok(acc, st)
    ELSE Let(_load_yaml_string(st, override_vars[i].v, "command line variable",
                               EmptyDict, TRUE),
             LAMBDA r : IF ~r.ok THEN r
                        ELSE parse_overrides(r.st, override_vars, i + 1,
                                             SetItem(acc, override_vars[i].k, r.val)))

RECURSIVE update(_, _)
\* {**a, **b}, both held as sequences of pairs
update(a, b) ==
    IF Len(b) = 0 THEN a ELSE update(SetItem(a, Head(b).k, Head(b).v), Tail(b))

RECURSIVE evaluate_vars(_, _, _)
\* the loop over substitutions.items() of load_vars; env is `vars`
evaluate_vars(substitutions, i, env) ==
    IF i > Len(substitutions) THEN [ok |-> TRUE, val |-> DictV(env)]
    ELSE LET skey == substitutions[i].k
             svalue == substitutions[i].v
         IN  IF IsStr(svalue)
             THEN Let(expand_str(svalue.s, AsEnv(env)), LAMBDA e :
                      IF ~e.ok
                      THEN [ok |-> FALSE, val |-> Invalid("Error in substitution")]
                      ELSE evaluate_vars(substitutions, i + 1,
                                         SetItem(env, skey, StrV(e.s))))
             ELSE evaluate_vars(substitutions, i + 1, SetItem(env, skey, svalue))

\* raw_config[CONF_SUBSTITUTIONS] if CONF_SUBSTITUTIONS in raw_config, else {}
raw_substitutions(raw_config) ==
    CASE IsDict(raw_config) ->
             IF HasKey(raw_config.pairs, CONF_SUBSTITUTIONS)
             THEN [ok |-> TRUE, val |-> Get(raw_config.pairs, CONF_SUBSTITUTIONS)]
             ELSE [ok |-> TRUE, val |-> DictV(<<>>)]
      [] IsList(raw_config) ->
             IF \E i \in 1..Len(raw_config.items) :
                    raw_config.items[i] = StrV(CONF_SUBSTITUTIONS)
             THEN [ok |-> FALSE, val |-> PyError("TypeError")]
             ELSE [ok |-> TRUE, val |-> DictV(<<>>)]
      [] OTHER -> [ok |-> FALSE, val |-> PyError("TypeError")]

load_vars(st, fname, override_vars) ==
    Let(parse_overrides(st, override_vars, 1, <<>>), LAMBDA o :
        IF ~o.ok THEN o
        ELSE
        Let(_load_yaml_internal(o.st, fname, EmptyDict, TRUE), LAMBDA raw :
            IF ~raw.ok THEN raw
            ELSE
            Let(raw_substitutions(raw.val), LAMBDA s :
                IF ~s.ok THEN Raise(s.val, raw.st)
                ELSE IF ~IsDict(s.val)
                THEN Raise(Invalid("Substitutions must be a key to value mapping"),
                           raw.st)
                ELSE Let(evaluate_vars(update(validate_vars(s.val.pairs), o.val),
                                       1, <<>>),
                         LAMBDA v : [ok |-> v.ok, val |-> v.val, st |-> raw.st]))))

MaxSubs == 2
MaxOverrides == 1

\* the entries a substitutions mapping is made of
SubEntries ==
    << K("x", S("int", "1")),
       K("x", S("str", "{{ u }}")),
       K("u", S("str", "{{ x }}")),
       K("u", S("str", "w")),
       K("j", S("str", "{{ u }}")) >>

\* the overrides of the command line, each value the YAML document of its text
OverrideEntries ==
    << Pair("x", S("int", "5")),
       Pair("x", S("int", "0")),
       Pair("x", S("str", "{{ u }}")),
       Pair("j", S("int", "5")),
       Pair("j", S("str", "{{ x }}")),
       Pair("u", S("int", "3")) >>

\* the documents of load_vars: substitutions of distinct names, none, or a
\* key without a mapping
VarsDocs ==
    {M(<< K("esphome", S("null", "")) >>),
     M(<< K(CONF_SUBSTITUTIONS, S("null", "")) >>)}
    \cup {M(<< K(CONF_SUBSTITUTIONS, M([i \in 1..Len(w) |-> SubEntries[w[i]]])) >>) :
            w \in {u \in Words(Len(SubEntries), MaxSubs) :
                     \A a, b \in DOMAIN u :
                         a # b => SubEntries[u[a]].k.sv # SubEntries[u[b]].k.sv}}

\* override_vars, a dict: the names are distinct
Overrides ==
    {<<>>} \cup
    {[i \in 1..Len(w) |-> OverrideEntries[w[i]]] :
        w \in {u \in Words(Len(OverrideEntries), MaxOverrides) :
                 \A a, b \in DOMAIN u :
                     a # b => OverrideEntries[u[a]].k # OverrideEntries[u[b]].k}}

\* node is the document of fname and vars0 is override_vars
InitVars ==
    /\ pc = "start"
    /\ node \in VarsDocs
    /\ vars0 \in Overrides
    /\ ret = [ok |-> TRUE, val |-> Null]
    /\ loader = [vars |-> EmptyDict, dse |-> TRUE]
    /\ xlog = <<>>
    /\ _SECRET_VALUES = EmptyDict
    /\ _SECRET_CACHE = EmptyDict
    /\ reads = EmptyDict
    /\ lookups = <<>>
    /\ dumpIn = Null
    /\ dumpOut = Null
    /\ cleared = FALSE

\* load_vars(MAIN, override_vars)
LoadVars ==
    /\ pc = "start"
    /\ \E r \in {load_vars(LoaderState(<< Pair(MAIN, node) >>, MAIN, EmptyDict,
                                       _SECRET_VALUES, lookups),
                           MAIN, vars0)} :
           /\ ret' = [ok |-> r.ok, val |-> r.val]
           /\ xlog' = r.st.xlog
           /\ _SECRET_VALUES' = r.st.sv
           /\ reads' = r.st.reads
           /\ lookups' = r.st.lookups
    /\ pc' = "done"
    /\ UNCHANGED <<node, vars0, loader, _SECRET_CACHE, dumpIn, dumpOut, cleared>>

SpecVars == InitVars /\ [][LoadVars]_vars

\* the substitutions written in the document, as pairs of a key node and a
\* value node
FileSubs ==
    IF HasField(node, CONF_SUBSTITUTIONS) THEN Field(node, CONF_SUBSTITUTIONS).pairs
    ELSE <<>>

\* the names in declaration order: those of the file, then those that only
\* the command line gives
Declared ==
    [i \in 1..Len(FileSubs) |-> FileSubs[i].k.sv]
    \o SelectSeq(Keys(vars0), LAMBDA k : ~HasField([pairs |-> FileSubs], k))

\* the node that declares name: the override if there is one, else the file's
Declaration(name) ==
    IF HasKey(vars0, name) THEN Get(vars0, name)
    ELSE Field([pairs |-> FileSubs], name)

\* the value a scalar node writes
Written(n) == IF n.tag = "int" THEN IntV(ParseInt(n.sv)) ELSE StrV(n.sv)

\* n is a string that references a substitution
Refers(n) == n.tag = "str" /\ HasKey(Templates, n.sv)

\* C12 as claimed: load_vars evaluates the substitutions in declaration order,
\* the overrides laid over the file's: it fails iff a string references a
\* name that is not declared before it; otherwise it returns exactly the
\* declared names, a non-string value unchanged, a plain string as it is, and
\* a string that references an earlier substitution as the string of that
\* substitution's evaluated value.
C12_AsClaimed ==
    (pc = "done" /\ (HasField(node, CONF_SUBSTITUTIONS) =>
                        IsMappingNode(Field(node, CONF_SUBSTITUTIONS)))) =>
        LET names == Declared
            Forward(i) == /\ Refers(Declaration(names[i]))
                          /\ \A h \in 1..(i - 1) :
                                 names[h] # Get(Templates, Declaration(names[i]).sv)
        IN  IF \E i \in 1..Len(names) : Forward(i)
            THEN ~ret.ok /\ ret.val.cls = "Invalid"
            ELSE /\ ret.ok
                 /\ Keys(ret.val.pairs) = names
                 /\ \A i \in 1..Len(names) :
                        LET d == Declaration(names[i])
                        IN  ret.val.pairs[i].v =
                                IF Refers(d)
                                THEN StrV(PyStr(Get(ret.val.pairs, Get(Templates, d.sv))))
                                ELSE Written(d)

-----------------------------------------------------------------------------
(* _load_yaml_string of documents in which the directives stand in every    *)
(* position: elements of a sequence of up to MaxElems elements, the value   *)
(* of a mapping key, the root of the document                               *)

MaxElems == 2

Loop ==
    MappingNode("!for", << K("items", IntList("1", "2")),
                           K("repeat", S("str", "{{ item }}")) >>, 1)

IfThenElse(condition, then_node, else_node) ==
    MappingNode("!if", << K("condition", condition), K("then", then_node),
                          K("else", else_node) >>, 1)

TreeItems ==
    << S("int", "1"),
       S("null", ""),
       Loop,
       For(IntList("1", "2"), "item", For(Q(<< S("int", "3") >>), "j", S("str", "{{ j }}"))),
       For(IntList("1", "2"), "item", IfThen(S("bool", "false"), S("int", "5"))),
       IfThen(S("bool", "false"), S("int", "1")),
       IfThen(S("int", "0"), Loop),
       IfThen(S("bool", "true"), Loop),
       IfThenElse(S("bool", "false"), S("int", "1"), S("int", "2")),
       SequenceNode("!merge", <<>>, 1),
       SequenceNode("!merge",
                    << For(IntList("1", "2"), "item", Q(<< S("str", "{{ item }}") >>)) >>, 1),
       SequenceNode("!literal",
                    << Loop, IfThen(S("bool", "true"), S("int", "1")),
                       SequenceNode("!merge", << Q(<< S("int", "1") >>) >>, 1),
                       S("int", "4") >>, 1),
       S("!include", "loop.yaml"),
       M(<< K("k", Loop) >>),
       Q(<< Loop, S("null", "") >>) >>

\* a sequence under the key seq, one item under the key key, one item as the
\* root of the document
TreeDocs ==
    {M(<< K("seq", Q([i \in 1..Len(w) |-> TreeItems[w[i]]])) >>) :
        w \in Words(Len(TreeItems), MaxElems)}
    \cup {M(<< K("key", TreeItems[i]) >>) : i \in 1..Len(TreeItems)}
    \cup {TreeItems[i] : i \in 1..Len(TreeItems)}

InitTree ==
    /\ pc = "start"
    /\ node \in TreeDocs
    /\ vars0 = EmptyDict
    /\ ret = [ok |-> TRUE, val |-> Null]
    /\ loader = [vars |-> vars0, dse |-> FALSE]
    /\ xlog = <<>>
    /\ _SECRET_VALUES = EmptyDict
    /\ _SECRET_CACHE = EmptyDict
    /\ reads = EmptyDict
    /\ lookups = <<>>
    /\ dumpIn = Null
    /\ dumpOut = Null
    /\ cleared = FALSE

SpecTree == InitTree /\ [][LoadYamlString]_vars

\* the document is a sequence under the key seq
SeqDoc == IsMappingNode(node) /\ node.pairs[1].k.sv = "seq"

\* n is an `!if` without `else` whose condition evaluates false
Unsatisfied(n) ==
    /\ n.tag = "!if"
    /\ ~HasField(n, "else")
    /\ ~Truthy(construct_object(LoadLoader(vars0), Field(n, "condition")).val)

\* the sequence loaded from the elements ns under the key seq
LoadedSeq(ns) ==
    _load_yaml_string(LoadLoader(vars0), M(<< K("seq", Q(ns)) >>), MAIN, vars0,
                      FALSE).val.pairs[1].v

\* C13: an `!if` without `else` whose condition evaluates false contributes no
\* element to the sequence it is an element of: the sequence constructed is
\* the one constructed from the other elements alone, their values and their
\* order unchanged.
C13_UnsatisfiedIf ==
    (pc = "done" /\ SeqDoc /\ ret.ok) =>
        ret.val.pairs[1].v = LoadedSeq(SelectSeq(TopSeq, LAMBDA n : ~Unsatisfied(n)))

\* a sequence was constructed from an unsatisfied `!if` between two elements
\* that contribute
C13_Witness ==
    /\ pc = "done" /\ SeqDoc /\ ret.ok
    /\ Len(TopSeq) = 2
    /\ Unsatisfied(TopSeq[1])
    /\ ~Unsatisfied(TopSeq[2])
    /\ Len(ret.val.pairs[1].v.items) = 2

-----------------------------------------------------------------------------
(* construct_if on its own: `!if` mappings of up to MaxIfEntries entries    *)
(* drawn from IfEntries, constructed with expansion enabled and no variable *)
(* defined; xlog and lookups are the strings and the secrets constructed    *)

MaxIfEntries == 3

IfEntries ==
    << K("condition", S("str", "yes")),
       K("condition", S("str", "")),
       K("condition", S("!secret", "flag")),
       K("condition", S("str", "{{ u }}")),
       K("then", S("str", "T")),
       K("then", S("!secret", "pin")),
       K("then", S("str", "{{ x }}")),
       K("else", S("str", "E")),
       K("else", S("!secret", "ratio")),
       K("else", S("str", "{{ j }}")) >>

InitIf ==
    /\ pc = "start"
    /\ node \in {MappingNode("!if", [i \in 1..Len(w) |-> IfEntries[w[i]]], 1) :
                    w \in Words(Len(IfEntries), MaxIfEntries)}
    /\ vars0 = EmptyDict
    /\ ret = [ok |-> TRUE, val |-> Null]
    /\ loader = [vars |-> vars0, dse |-> FALSE]
    /\ xlog = <<>>
    /\ _SECRET_VALUES = EmptyDict
    /\ _SECRET_CACHE = EmptyDict
    /\ reads = EmptyDict
    /\ lookups = <<>>
    /\ dumpIn = Null
    /\ dumpOut = Null
    /\ cleared = FALSE

IfLoader == LoaderState(SecretFiles, MAIN, vars0, EmptyDict, <<>>)

\* construct_object(node) of a loader of MAIN, node tagged `!if`
ConstructIf ==
    /\ pc = "start"
    /\ \E r \in {construct_object(IfLoader, node)} :
           /\ ret' = [ok |-> r.ok, val |-> r.val]
           /\ loader' = [vars |-> r.st.vars, dse |-> r.st.dse]
           /\ xlog' = r.st.xlog
           /\ _SECRET_VALUES' = r.st.sv
           /\ reads' = r.st.reads
           /\ lookups' = r.st.lookups
    /\ pc' = "done"
    /\ UNCHANGED <<node, vars0, _SECRET_CACHE, dumpIn, dumpOut, cleared>>

SpecIf == InitIf /\ [][ConstructIf]_vars

\* how many times the node n was constructed: the strings that reached the
\* expander and the secrets that were looked up
Constructions(n) ==
    IF n.tag = "!secret"
    THEN Cardinality({i \in 1..Len(lookups) : lookups[i].name = n.sv})
    ELSE Cardinality({i \in 1..Len(xlog) : xlog[i].s = n.sv})

\* the entries of the `!if` written under the key name, in order
EntriesOf(name) ==
    SelectSeq([i \in 1..Len(node.pairs) |-> i], LAMBDA i : node.pairs[i].k.sv = name)

\* the node of the last entry written under the key name
LastOf(name) == node.pairs[EntriesOf(name)[Len(EntriesOf(name))]].v

\* what constructing n on its own gives
Alone(n) == construct_object(IfLoader, n)

\* the arms written in the `!if`
Arms == {node.pairs[i].v : i \in {j \in 1..Len(node.pairs) :
                                     node.pairs[j].k.sv \in {"then", "else"}}}

\* the condition is falsy: that of the last `condition` entry, null without one
Falsy == Len(EntriesOf("condition")) = 0 \/ ~Truthy(Alone(LastOf("condition")).val)

\* exactly the arm n was constructed, once, and its outcome is the outcome of
\* the `!if`
Selected(n) ==
    /\ Constructions(n) = 1
    /\ \A a \in Arms \ {n} : Constructions(a) = 0
    /\ ret = [ok |-> Alone(n).ok, val |-> Alone(n).val]

\* the outcome of an `!if` whose conditions all construct: a failure without
\* `then`, else the arm selected by the condition, else null
Outcome ==
    IF Len(EntriesOf("then")) = 0
    THEN /\ ~ret.ok /\ ret.val.context = "missing then value"
         /\ \A a \in Arms : Constructions(a) = 0
    ELSE IF ~Falsy THEN Selected(LastOf("then"))
    ELSE IF Len(EntriesOf("else")) > 0 THEN Selected(LastOf("else"))
    ELSE /\ ret = [ok |-> TRUE, val |-> Null]
         /\ \A a \in Arms : Constructions(a) = 0

\* C14 as claimed: in every `!if` (each key written at most once) the
\* condition is constructed exactly once; without `then` the directive fails;
\* otherwise exactly the selected arm is constructed, and a falsy condition
\* without `else` yields null.
C14_AsClaimed ==
    (pc = "done" /\ \A name \in {"condition", "then", "else"} : Len(EntriesOf(name)) <= 1) =>
        /\ Len(EntriesOf("condition")) = 1 /\ Constructions(LastOf("condition")) = 1
        /\ Alone(LastOf("condition")).ok => Outcome

\* the `condition` entries up to the first one that fails to construct
Reached ==
    LET cs == EntriesOf("condition")
        failing == {h \in 1..Len(cs) : ~Alone(node.pairs[cs[h]].v).ok}
    IN  IF failing = {} THEN cs ELSE SubSeq(cs, 1, First(failing))

\* C14, amended: every `condition` entry is constructed exactly once, in the
\* order written, up to the first one that fails, whose error is the
\* directive's; an `!if` without `condition` constructs none and takes the
\* condition as falsy, and of several entries of one key the last counts.
\* When the conditions construct: without `then` the directive fails, whatever
\* the condition; otherwise exactly the selected arm is constructed, once,
\* `then` iff the condition is truthy and `else` iff it is falsy and present,
\* no other arm is constructed (no string of it expanded, no secret of it
\* looked up), and a falsy condition without `else` yields null.
C14_IfEvaluation ==
    pc = "done" =>
        /\ \A i \in 1..Len(node.pairs) :
               node.pairs[i].k.sv = "condition" =>
                   Constructions(node.pairs[i].v) =
                       Cardinality({h \in 1..Len(Reached) :
                                       node.pairs[Reached[h]].v = node.pairs[i].v})
        /\ IF Len(Reached) > 0 /\ ~Alone(node.pairs[Reached[Len(Reached)]].v).ok
           THEN /\ ret = [ok |-> FALSE, val |-> Alone(node.pairs[Reached[Len(Reached)]].v).val]
                /\ \A a \in Arms : Constructions(a) = 0
           ELSE Outcome

\* a truthy condition selected a `then` that looks a secret up, next to an
\* `else` that was not constructed
C14_Witness ==
    /\ pc = "done" /\ ret.ok
    /\ Len(EntriesOf("condition")) = 1 /\ ~Falsy
    /\ Len(EntriesOf("then")) = 1 /\ LastOf("then").tag = "!secret"
    /\ Len(EntriesOf("else")) = 1
    /\ Constructions(LastOf("then")) = 1
    /\ Constructions(LastOf("else")) = 0
    /\ ret.val = IntV(1)

RECURSIVE HasForList(_)
\* some value of the tree v is a ForList
HasForList(v) ==
    CASE v.t = "forlist" -> TRUE
      [] v.t = "list" -> \E i \in 1..Len(v.items) : HasForList(v.items[i])
      [] v.t = "dict" -> \E i \in 1..Len(v.pairs) : HasForList(v.pairs[i].v)
      [] OTHER -> FALSE

\* C15 as claimed: no value of the tree returned by a load is a ForList,
\* wherever the `!for` was written: element of a sequence, value of a mapping
\* key, arm of an `!if`, element of a `!merge` list, root of the document or
\* of an included document.
C15_AsClaimed == (pc = "done" /\ ret.ok) => ~HasForList(ret.val)

RECURSIVE CleanLists(_)
\* no sequence of the tree v has a null element or a ForList element
CleanLists(v) ==
    CASE v.t = "list" ->
             \A i \in 1..Len(v.items) :
                 v.items[i].t \notin {"null", "forlist"} /\ CleanLists(v.items[i])
      [] v.t = "forlist" -> \A i \in 1..Len(v.items) : CleanLists(v.items[i])
      [] v.t = "dict" -> \A i \in 1..Len(v.pairs) : CleanLists(v.pairs[i].v)
      [] OTHER -> TRUE

RECURSIVE FlatLen(_)
\* the number of elements the children vs leave in their sequence: none for a
\* null, one for any other value, those of its items for a ForList
FlatLen(vs) ==
    IF Len(vs) = 0 THEN 0
    ELSE (CASE Head(vs).t = "null" -> 0
            [] Head(vs).t = "forlist" -> FlatLen(Head(vs).items)
            [] OTHER -> 1) + FlatLen(Tail(vs))

\* the children of the document's sequence as constructed, before the
\* flattening pass
Children == construct_children(LoadLoader(vars0), TopSeq, 1, <<>>).val

\* C16: no sequence returned by construct_sequence has a null element or a
\* ForList element, whatever produced the null (a YAML null, an unsatisfied
\* `!if`, a directive under `!literal`, a `!merge` of an empty list), and the
\* length of the document's sequence is the number of its children that are
\* neither null nor a ForList plus the flattened lengths of its ForList
\* children.
C16_NoNullNoForList ==
    (pc = "done" /\ ret.ok) =>
        /\ CleanLists(ret.val)
        /\ SeqDoc => Len(ret.val.pairs[1].v.items) = FlatLen(Children)

\* a sequence was constructed from a null child and a ForList child that
\* holds a null
C16_Witness ==
    /\ pc = "done" /\ ret.ok /\ SeqDoc
    /\ \E i \in 1..Len(Children) : Children[i].t = "null"
    /\ \E i \in 1..Len(Children) :
           /\ Children[i].t = "forlist"
           /\ \E h \in 1..Len(Children[i].items) : Children[i].items[h].t = "null"

====
